---- MODULE Spec2Model ----
(***************************************************************************)
(* Multi-entity write-consistency layer of the storefront backend:         *)
(*   - ProductController.post / update / delete / getById                  *)
(*   - ProductDBRepository.insertProduct / updateProduct                   *)
(*   - StoreController.createStore / update / disableStore / getById       *)
(* Each request handler is one action; the handler's calls are threaded    *)
(* through a session record s = [db, saved, open, err, log]: the tables,   *)
(* the tables at beginTransaction, whether a scope is open, the error      *)
(* thrown ("none": none) and the repository and Unit-of-Work calls made.   *)
(* req is the request just handled, until its response has been sent       *)
(* (Respond).  Product requests and store requests write disjoint tables:  *)
(* SpecProduct and SpecStore run each kind on its own, SpecLifecycle and   *)
(* SpecDuplicates run chosen payloads, Spec runs everything.  In           *)
(* SpecInterleave a product request is carried out call by call (flight)   *)
(* while other requests read (seen).                                       *)
(***************************************************************************)
EXTENDS Integers, Sequences, FiniteSets, TLC

\* ------------------------------------------------------------------ bounds
MaxProducts == 2      \* rows the product table may hold
MaxPost == 2          \* products in one POST array
MaxLen == 2           \* names in a desired category list
MaxSizes == 1         \* names in a desired size list
MaxStores == 2        \* rows the store table may hold
MaxWrites == 3        \* the writes of a store request the database may refuse
MaxDup == 2           \* times one name may occur in a desired list

\* -------------------------------------------------------- reference tables
\* Brand, Category and Size rows; the id of a row is its index.
Brand == <<"Nike", "Puma">>
Category == <<"Shoes", "Sale">>
Size == <<"M">>

\* Names a payload may carry: the names that exist and one that does not.
BrandNames == {Brand[i] : i \in 1..Len(Brand)} \cup {"NoBrand"}
CategoryNames == {Category[i] : i \in 1..Len(Category)} \cup {"NoCategory"}
SizeNames == {Size[i] : i \in 1..Len(Size)} \cup {"NoSize"}
Managers == {1, 2}

SeqsUpTo(S, n) == UNION {[1..k -> S] : k \in 0..n}

VARIABLES product, productCategory, productSize, store, storeColor, req, flight, seen

vars == <<product, productCategory, productSize, store, storeColor, req, flight, seen>>
productVars == <<product, productCategory, productSize>>
storeVars == <<store, storeColor>>
readVars == <<flight, seen>>

\* ------------------------------------------------------------ repositories
\* find({name}) on a reference table: the ids of the rows with that name.
FindByName(table, name) == SelectSeq([i \in 1..Len(table) |-> i], LAMBDA i : table[i] = name)

\* find({managerId}) on the store table: the ids of the stores of a manager.
FindStoreByManager(st, idManager) == SelectSeq([i \in 1..Len(st) |-> i], LAMBDA i : st[i].managerId = idManager)

\* ProductRepository.getById: the product row with the names of its
\* categories and sizes, in the order its join rows were inserted.
JoinNames(rows, field, table, id) == LET mine == SelectSeq(rows, LAMBDA r : r.productId = id)
                                     IN  [i \in 1..Len(mine) |-> table[mine[i][field]]]

ProductGetById(db, id) == IF id \in 1..Len(db.product)
                          THEN [found |-> TRUE, row |-> db.product[id],
                                categories |-> JoinNames(db.productCategory, "categoryId", Category, id),
                                sizes |-> JoinNames(db.productSize, "sizeId", Size, id)]
                          ELSE [found |-> FALSE, row |-> <<>>, categories |-> <<>>, sizes |-> <<>>]

\* -------------------------------------------------------------- unit of work
\* What the other connections can read once a call has been carried out:
\* the tables without the writes of a scope that is still open.
Called(s) == [s EXCEPT !.views = Append(@, IF s.open THEN s.saved ELSE s.db)]

\* beginTransaction opens a scope on the connection.
BeginTransaction(s) == Called([s EXCEPT !.saved = s.db, !.open = TRUE, !.log = Append(@, "begin")])

\* rollbackTransaction discards the writes since the last begin and closes
\* the scope.
RollbackTransaction(s) == Called([s EXCEPT !.db = IF s.open THEN s.saved ELSE s.db,
                                           !.open = FALSE, !.log = Append(@, "rollback")])

\* commitTransaction finalizes the writes since the last begin and closes
\* the scope; on a closed scope there is nothing left to finalize.
CommitTransaction(s) == Called([s EXCEPT !.open = FALSE, !.log = Append(@, "commit")])

\* ------------------------------------------------------------------ errors
\* An error is named in the model after what makes it: "TypeError" is the
\* runtime's error for reading a property of undefined (x[0].id, or
\* const { id } = x[0], on an empty x), any other e is new Error(e).
ErrorName(e) == IF e = "TypeError" THEN "TypeError" ELSE "Error"

ErrorMessage(e) == IF e = "TypeError" THEN "Cannot read properties of undefined" ELSE e

NoError == [name |-> "none", message |-> ""]

\* String(e) of an error object: its name, ": ", its message.
ErrorToString(e) == e.name \o ": " \o e.message

\* A fresh session on the tables db; err is the error thrown inside the
\* handler, raised the error object the handler throws to its caller.
Session(db) == [db |-> db, saved |-> db, open |-> FALSE, err |-> "none", raised |-> NoError, log |-> <<>>,
                views |-> <<>>]

Throw(s, e) == [s EXCEPT !.err = e, !.raised = [name |-> ErrorName(e), message |-> ErrorMessage(e)]]

\* throw Error(e): a new Error whose message is String(e).
ThrowErrorOf(s) == [s EXCEPT !.raised = [name |-> "Error", message |-> ErrorToString(s.raised)]]

\* ------------------------------------------------------ generic CRUD base
\* insertOne(row): appends the row; its insertId is the new length.
InsertOne(s, table, row, event) == Called([s EXCEPT !.db[table] = Append(@, row), !.log = Append(@, event)])

\* delete({productId}) on a join table.
DeleteByProduct(s, table, id, event) == Called([s EXCEPT !.db[table] = SelectSeq(@, LAMBDA r : r.productId # id),
                                                         !.log = Append(@, event)])

\* update(fields) on the row whose id is fields.id: the columns given are
\* set, the others kept; no row has that id: nothing changes.
SetColumns(row, fields) == [c \in DOMAIN row |-> IF c \in DOMAIN fields THEN fields[c] ELSE row[c]]

SetRow(rows, fields) == [i \in 1..Len(rows) |-> IF i = fields.id THEN SetColumns(rows[i], fields) ELSE rows[i]]

UpdateRow(s, table, fields, event) == Called([s EXCEPT !.db[table] = SetRow(@, fields), !.log = Append(@, event)])

\* const { a, b, ...rest } = entity
Rest(entity, taken) == [f \in (DOMAIN entity) \ taken |-> entity[f]]

\* -------------------------------------------------- ProductDBRepository
\* Mutant: a category the product already has a join row of is skipped.
RECURSIVE InsertCategoriesOnce(_, _, _)
InsertCategoriesOnce(s, productId, categories) ==
    IF categories = <<>> THEN s
    ELSE LET categoryResponse == FindByName(Category, Head(categories))
             row == [productId |-> productId, categoryId |-> categoryResponse[1]]
         IN  IF Len(categoryResponse) < 1 THEN Throw(s, "Invalid category")
             ELSE IF \E i \in 1..Len(s.db.productCategory) : s.db.productCategory[i] = row
                  THEN InsertCategoriesOnce(s, productId, Tail(categories))
                  ELSE InsertCategoriesOnce(InsertOne(s, "productCategory", row, "insertOne:productCategory"),
                                            productId, Tail(categories))

RECURSIVE InsertCategories(_, _, _)
InsertCategories(s, productId, categories) ==
    IF categories = <<>> THEN s
    ELSE LET categoryResponse == FindByName(Category, Head(categories))
         IN  IF Len(categoryResponse) < 1 THEN Throw(s, "Invalid category")
             ELSE InsertCategories(InsertOne(s, "productCategory",
                                             [productId |-> productId, categoryId |-> categoryResponse[1]],
                                             "insertOne:productCategory"),
                                   productId, Tail(categories))

RECURSIVE InsertSizes(_, _, _)
InsertSizes(s, productId, sizes) ==
    IF sizes = <<>> THEN s
    ELSE LET sizeResponse == FindByName(Size, Head(sizes))
         IN  IF Len(sizeResponse) < 1 THEN Throw(s, "Invalid size")
             ELSE InsertSizes(InsertOne(s, "productSize",
                                        [productId |-> productId, sizeId |-> sizeResponse[1]],
                                        "insertOne:productSize"),
                              productId, Tail(sizes))

\* Mutant: the first brand row is taken, whatever its name.
NewProductRowFirstBrand(rest, id, brandId) == [storeId |-> id, brandId |-> 1, status |-> 1] @@ rest

\* The row insertProduct hands to insertOne: { ...rest, storeId: id, brandId }.
NewProductRow(rest, id, brandId) == [storeId |-> id, brandId |-> brandId, status |-> 1] @@ rest

InsertProduct(s, p, id) ==
    LET rest == Rest(p, {"categories", "sizes", "brand"})
        brandName == FindByName(Brand, p.brand)
    IN  IF Len(brandName) < 1 THEN Throw(s, "TypeError")
        ELSE LET s1 == InsertOne(s, "product", NewProductRow(rest, id, brandName[1]), "insertOne:product")
                 insertId == Len(s1.db.product)
                 s2 == InsertCategories(s1, insertId, p.categories)
             IN  IF s2.err # "none" THEN s2 ELSE InsertSizes(s2, insertId, p.sizes)

\* Mutant: the change detection always answers "changed".
ChangedAlways(desired, persisted) == TRUE

\* entity.x.length !== product.x.length || entity.x.some((val, index) => val !== product.x[index])
Changed(desired, persisted) == \/ Len(desired) # Len(persisted)
                               \/ \E index \in 1..Len(desired) : desired[index] # persisted[index]

\* Mutant: rest.storeId is not deleted.
UpdateFieldsWithStore(entity, brandId) == [brandId |-> brandId] @@ Rest(entity, {"categories", "sizes", "brand"})

\* The fields updateProduct hands to update: { brandId, ...rest } after
\* delete rest.storeId.
UpdateFields(entity, brandId) == [brandId |-> brandId] @@ Rest(entity, {"categories", "sizes", "brand", "storeId"})

\* Mutant: the categories are re-inserted without deleting the old rows.
ReconcileCategoriesKeepOld(s, entity, persisted) ==
    IF Changed(entity.categories, persisted.categories)
    THEN InsertCategories(s, entity.id, entity.categories)
    ELSE s

ReconcileCategories(s, entity, persisted) ==
    IF Changed(entity.categories, persisted.categories)
    THEN InsertCategories(DeleteByProduct(s, "productCategory", entity.id, "delete:productCategory"),
                          entity.id, entity.categories)
    ELSE s

\* Mutant: the sizes are compared with the persisted categories.
ReconcileSizesAgainstCategories(s, entity, persisted) ==
    IF Changed(entity.sizes, persisted.categories)
    THEN InsertSizes(DeleteByProduct(s, "productSize", entity.id, "delete:productSize"),
                     entity.id, entity.sizes)
    ELSE s

ReconcileSizes(s, entity, persisted) ==
    IF Changed(entity.sizes, persisted.sizes)
    THEN InsertSizes(DeleteByProduct(s, "productSize", entity.id, "delete:productSize"),
                     entity.id, entity.sizes)
    ELSE s

\* Mutant: the read-back is not tested.
UpdateProductNoTest(s, entity) ==
    LET brandName == FindByName(Brand, entity.brand)
    IN  IF Len(brandName) < 1 THEN Throw(s, "TypeError")
        ELSE LET s1 == UpdateRow(s, "product", UpdateFields(entity, brandName[1]), "update:product")
                 persisted == ProductGetById(s1.db, entity.id)
                 s2 == ReconcileCategories(s1, entity, persisted)
             IN  IF s2.err # "none" THEN s2 ELSE ReconcileSizes(s2, entity, persisted)

UpdateProduct(s, entity) ==
    LET brandName == FindByName(Brand, entity.brand)
    IN  IF Len(brandName) < 1 THEN Throw(s, "TypeError")
        ELSE LET s1 == UpdateRow(s, "product", UpdateFields(entity, brandName[1]), "update:product")
                 persisted == ProductGetById(s1.db, entity.id)
             IN  IF ~persisted.found THEN Throw(s1, "Product not found")
                 ELSE LET s2 == ReconcileCategories(s1, entity, persisted)
                      IN  IF s2.err # "none" THEN s2 ELSE ReconcileSizes(s2, entity, persisted)

\* ------------------------------------------------------ ProductController
ProductTables == [product |-> product, productCategory |-> productCategory, productSize |-> productSize]

\* Mutant: the loop goes on with the next product after a failed one.
RECURSIVE PostLoopGoesOn(_, _, _)
PostLoopGoesOn(s, products, id) ==
    IF products = <<>> THEN s
    ELSE LET s1 == InsertProduct(s, Head(products), id)
             s2 == PostLoopGoesOn([s1 EXCEPT !.err = "none"], Tail(products), id)
         IN  IF s1.err # "none" THEN [s2 EXCEPT !.err = s1.err, !.raised = s1.raised] ELSE s2

\* for (const product of products) { insertProduct; getById; push }
RECURSIVE PostLoop(_, _, _)
PostLoop(s, products, id) ==
    IF products = <<>> THEN s
    ELSE LET s1 == InsertProduct(s, Head(products), id)
         IN  IF s1.err # "none" THEN s1 ELSE PostLoop(s1, Tail(products), id)

\* Mutant: the catch block of post without its rollback.
PostCatchCommitOnly(s) == CommitTransaction(s)

\* catch (e) { rollbackTransaction(); commitTransaction(); throw Error(e) }
PostCatch(s) == ThrowErrorOf(CommitTransaction(RollbackTransaction(s)))

\* Mutant: post without beginTransaction.
PostHandlerNoBegin(s, idManager, products) ==
    LET found == FindStoreByManager(store, idManager)
    IN  IF Len(found) < 1 THEN Throw(s, "TypeError")
        ELSE LET s1 == PostLoop(s, products, found[1])
             IN  IF s1.err # "none" THEN PostCatch(s1) ELSE CommitTransaction(s1)

PostHandler(s, idManager, products) ==
    LET found == FindStoreByManager(store, idManager)
    IN  IF Len(found) < 1 THEN Throw(s, "TypeError")
        ELSE LET s1 == PostLoop(BeginTransaction(s), products, found[1])
             IN  IF s1.err # "none" THEN PostCatch(s1) ELSE CommitTransaction(s1)

\* Mutant: the catch block of update without its rollback.
UpdateCatchCommitOnly(s) == CommitTransaction(s)

\* catch (e) { rollbackTransaction(); commitTransaction(); throw Error(e) }
UpdateCatch(s) == ThrowErrorOf(CommitTransaction(RollbackTransaction(s)))

\* Mutant: update commits right after beginTransaction, before updateProduct.
UpdateHandlerCommitFirst(s, entity) ==
    LET s1 == UpdateProduct(CommitTransaction(BeginTransaction(s)), entity)
    IN  IF s1.err # "none" THEN UpdateCatch(s1) ELSE s1

UpdateHandler(s, entity) ==
    LET s1 == UpdateProduct(BeginTransaction(s), entity)
    IN  IF s1.err # "none" THEN UpdateCatch(s1) ELSE CommitTransaction(s1)

\* Mutant: delete removes the product's join rows too.
DeleteHandlerCascade(s, p) ==
    DeleteByProduct(UpdateRow(s, "product", [id |-> p.id, status |-> 0], "update:product"),
                    "productCategory", p.id, "delete:productCategory")

\* delete(product): update({ id: product.id, status: 0 })
DeleteHandler(s, p) == UpdateRow(s, "product", [id |-> p.id, status |-> 0], "update:product")

\* Request payloads.
NewProducts == [brand : BrandNames, categories : SeqsUpTo(CategoryNames, MaxLen),
                sizes : SeqsUpTo(SizeNames, MaxSizes)]
Entities == [id : 1..MaxProducts, brand : BrandNames, categories : SeqsUpTo(CategoryNames, MaxLen),
             sizes : SeqsUpTo(SizeNames, MaxSizes), storeId : 1..MaxStores]

\* req, the request just handled: what was asked, the tables before it, how
\* it ended (err, and raised: what its caller got thrown), the calls it made
\* (log) and whether it is the same request sent a second time in a row
\* (again).
Idle == req.op = "none"

\* How many products a POST array may hold now.
Room == IF ~Idle THEN 0
        ELSE IF MaxProducts - Len(product) < MaxPost THEN MaxProducts - Len(product) ELSE MaxPost

\* The payloads a PUT may carry now.
Puts == IF Idle THEN Entities
        ELSE IF req.op = "update" /\ req.err = "none" /\ ~req.again THEN {req.payload} ELSE {}

MayPut(entity) == Idle \/ (req.op = "update" /\ req.err = "none" /\ ~req.again /\ entity = req.payload)

Post(idManager, products) ==
    /\ Len(products) <= Room
    /\ \E s \in {PostHandler(Session(ProductTables), idManager, products)} :
           /\ product' = s.db.product
           /\ productCategory' = s.db.productCategory
           /\ productSize' = s.db.productSize
           /\ req' = [op |-> "post", caller |-> idManager, payload |-> products, before |-> ProductTables,
                      err |-> s.err, raised |-> s.raised, log |-> s.log, again |-> FALSE]
    /\ UNCHANGED <<storeVars, readVars>>

\* A PUT request; the client may send the request it just got a normal
\* answer to once more.
Update(entity) ==
    /\ MayPut(entity)
    /\ \E s \in {UpdateHandler(Session(ProductTables), entity)} :
           /\ product' = s.db.product
           /\ productCategory' = s.db.productCategory
           /\ productSize' = s.db.productSize
           /\ req' = [op |-> "update", caller |-> 0, payload |-> entity, before |-> ProductTables,
                      err |-> s.err, raised |-> s.raised, log |-> s.log, again |-> ~Idle]
    /\ UNCHANGED <<storeVars, readVars>>

\* A DELETE request on a product.
Deletes == [id : 1..MaxProducts]

Delete(p) ==
    /\ Idle
    /\ \E s \in {DeleteHandler(Session(ProductTables), p)} :
           /\ product' = s.db.product
           /\ productCategory' = s.db.productCategory
           /\ productSize' = s.db.productSize
           /\ req' = [op |-> "delete", caller |-> 0, payload |-> p, before |-> ProductTables,
                      err |-> s.err, raised |-> s.raised, log |-> s.log, again |-> FALSE]
    /\ UNCHANGED <<storeVars, readVars>>

\* The response (or the error) has been handed to the HTTP layer.
NoRequest == [op |-> "none"]

Respond ==
    /\ ~Idle
    /\ req' = NoRequest
    /\ UNCHANGED <<productVars, storeVars, readVars>>

\* -------------------------------------------------------- StoreController
StoreTables == [store |-> store, storeColor |-> storeColor]

\* A repository write of a store request: the failAt-th write of the request
\* is refused by the database (0: none is), the others are carried out.
StoreWrite(s, written, event) ==
    IF s.calls + 1 = s.failAt THEN Throw([s EXCEPT !.calls = @ + 1], "DbError")
    ELSE [s EXCEPT !.calls = @ + 1, !.db = written, !.log = Append(@, event)]

StoreSession(db, failAt) == [db |-> db, err |-> "none", raised |-> NoError, log |-> <<>>, calls |-> 0, failAt |-> failAt]

\* find({storeId, type}) on the color table: the ids of the matching rows.
FindColor(colorRows, storeId, type) ==
    SelectSeq([i \in 1..Len(colorRows) |-> i], LAMBDA i : colorRows[i].storeId = storeId /\ colorRows[i].type = type)

\* Mutant: the default pair the other way round.
DefaultColorsSwapped == [primary |-> [hue |-> 240, sat |-> 240, light |-> 240],
                         secondary |-> [hue |-> 12, sat |-> 12, light |-> 12]]

\* if (!colors) colors = { primary: {12,12,12}, secondary: {240,240,240} }
DefaultColors == [primary |-> [hue |-> 12, sat |-> 12, light |-> 12],
                  secondary |-> [hue |-> 240, sat |-> 240, light |-> 240]]

ColorRow(color, storeId, type) == [storeId |-> storeId, type |-> type, hue |-> color.hue, sat |-> color.sat, light |-> color.light]

CreateStoreHandler(s, payload) ==
    LET colors == IF payload.hasColors THEN payload.colors ELSE DefaultColors
        row == [managerId |-> payload.managerId, name |-> payload.name, status |-> 1]
        s1 == StoreWrite(s, [s.db EXCEPT !.store = Append(@, row)], "insertOne:store")
        insertId == Len(s1.db.store)
        s2 == StoreWrite(s1, [s1.db EXCEPT !.storeColor = Append(@, ColorRow(colors.primary, insertId, "PRIMARY"))],
                         "insertOne:storeColor")
        s3 == StoreWrite(s2, [s2.db EXCEPT !.storeColor = Append(@, ColorRow(colors.secondary, insertId, "SECONDARY"))],
                         "insertOne:storeColor")
    IN  IF s1.err # "none" THEN s1 ELSE IF s2.err # "none" THEN s2 ELSE s3

\* disableStore(store): update({ id: store.id, status: 0 })
DisableStoreHandler(s, payload) ==
    StoreWrite(s, [s.db EXCEPT !.store = SetRow(@, [id |-> payload.id, status |-> 0])], "update:store")

\* Mutant: the color row is looked up by store only, not by type.
UpdateColorAnyType(s, colors, slot, type, idStore) ==
    IF slot \notin DOMAIN colors THEN s
    ELSE LET found == SelectSeq([i \in 1..Len(s.db.storeColor) |-> i], LAMBDA i : s.db.storeColor[i].storeId = idStore)
         IN  IF Len(found) < 1 THEN Throw(s, "TypeError")
             ELSE StoreWrite(s, [s.db EXCEPT !.storeColor = SetRow(@, [id |-> found[1]] @@ colors[slot])], "update:storeColor")

\* if (colors.<slot>) { find the row of that type; update({ ...colors.<slot>, id }) }
UpdateColor(s, colors, slot, type, idStore) ==
    IF slot \notin DOMAIN colors THEN s
    ELSE LET found == FindColor(s.db.storeColor, idStore, type)
         IN  IF Len(found) < 1 THEN Throw(s, "TypeError")
             ELSE StoreWrite(s, [s.db EXCEPT !.storeColor = SetRow(@, [id |-> found[1]] @@ colors[slot])], "update:storeColor")

\* Mutant: the id of the payload is kept.
StoreFieldsPayloadId(payload, idStore) == Rest(payload, {"colors", "hasColors"})

\* delete store.colors; delete store.products; { ...store, id: idStore }
StoreFields(payload, idStore) == [id |-> idStore] @@ Rest(payload, {"id", "colors", "hasColors"})

StoreUpdateHandler(s, idManager, payload) ==
    LET found == FindStoreByManager(s.db.store, idManager)
    IN  IF Len(found) < 1 THEN Throw(s, "TypeError")
        ELSE LET idStore == found[1]
                 s1 == StoreWrite(s, [s.db EXCEPT !.store = SetRow(@, StoreFields(payload, idStore))], "update:store")
             IN  IF s1.err # "none" THEN s1
                 ELSE IF ~payload.hasColors THEN Throw(s1, "TypeError")
                 ELSE LET s2 == UpdateColor(s1, payload.colors, "primary", "PRIMARY", idStore)
                      IN  IF s2.err # "none" THEN s2
                          ELSE UpdateColor(s2, payload.colors, "secondary", "SECONDARY", idStore)

\* Request payloads; hasColors: the payload has a colors object.
StoreNames == {"a", "b"}
ColorValues == {[hue |-> 30, sat |-> 50, light |-> 40], [hue |-> 200, sat |-> 60, light |-> 70]}
Slots == {"primary", "secondary"}
ColorPayloads == UNION {[slots -> ColorValues] : slots \in SUBSET Slots}
FullColorPayloads == [Slots -> ColorValues]
NewStores == [name : StoreNames, managerId : Managers, hasColors : {TRUE}, colors : FullColorPayloads]
                 \cup [name : StoreNames, managerId : Managers, hasColors : {FALSE}, colors : {<<>>}]
StorePuts == [id : 1..MaxStores, name : StoreNames, hasColors : {TRUE}, colors : ColorPayloads]
                 \cup [id : 1..MaxStores, name : StoreNames, hasColors : {FALSE}, colors : {<<>>}]

CreateStore(payload, failAt) ==
    /\ Idle
    /\ Len(store) < MaxStores
    /\ \E s \in {CreateStoreHandler(StoreSession(StoreTables, failAt), payload)} :
           /\ store' = s.db.store
           /\ storeColor' = s.db.storeColor
           /\ req' = [op |-> "createStore", caller |-> 0, payload |-> payload, before |-> StoreTables,
                      err |-> s.err, raised |-> s.raised, log |-> s.log, again |-> FALSE]
    /\ UNCHANGED <<productVars, readVars>>

StoreUpdate(idManager, payload, failAt) ==
    /\ Idle
    /\ \E s \in {StoreUpdateHandler(StoreSession(StoreTables, failAt), idManager, payload)} :
           /\ store' = s.db.store
           /\ storeColor' = s.db.storeColor
           /\ req' = [op |-> "storeUpdate", caller |-> idManager, payload |-> payload, before |-> StoreTables,
                      err |-> s.err, raised |-> s.raised, log |-> s.log, again |-> FALSE]
    /\ UNCHANGED <<productVars, readVars>>

\* A DELETE request on a store.
Disables == [id : 1..MaxStores]

DisableStore(payload, failAt) ==
    /\ Idle
    /\ \E s \in {DisableStoreHandler(StoreSession(StoreTables, failAt), payload)} :
           /\ store' = s.db.store
           /\ storeColor' = s.db.storeColor
           /\ req' = [op |-> "disableStore", caller |-> 0, payload |-> payload, before |-> StoreTables,
                      err |-> s.err, raised |-> s.raised, log |-> s.log, again |-> FALSE]
    /\ UNCHANGED <<productVars, readVars>>

\* ------------------------------------------- requests carried out call by call
\* ProductController.getById: the product with its names, or not found.
ProductControllerGetById(db, productId) == ProductGetById(db, productId)

\* StoreController.getById: the store row, its active products and its
\* colors by lower-cased type (the last row of a type wins).
ColorsObj(colorsResponse) ==
    LET slot(type) == IF type = "PRIMARY" THEN "primary" ELSE "secondary"
        last(name) == CHOOSE i \in 1..Len(colorsResponse) :
                          /\ slot(colorsResponse[i].type) = name
                          /\ \A j \in (i + 1)..Len(colorsResponse) : slot(colorsResponse[j].type) # name
    IN  [name \in {slot(colorsResponse[i].type) : i \in 1..Len(colorsResponse)} |->
            [hue |-> colorsResponse[last(name)].hue, sat |-> colorsResponse[last(name)].sat,
             light |-> colorsResponse[last(name)].light]]

StoreControllerGetById(db, storeId) ==
    [found |-> storeId \in 1..Len(store),
     products |-> SelectSeq([i \in 1..Len(db.product) |-> [id |-> i] @@ db.product[i]],
                            LAMBDA r : r.storeId = storeId /\ r.status = 1),
     colors |-> ColorsObj(SelectSeq(storeColor, LAMBDA r : r.storeId = storeId))]

\* flight, the product request in progress: the tables before it, what the
\* other connections can read after each of its calls (views), how many of
\* its calls have been carried out (at), and how it ends (err, after).
NoFlight == [op |-> "none"]

\* seen, what the read request just handled got.
NoRead == [kind |-> "none"]

Receive(op, s) ==
    /\ flight' = [op |-> op, before |-> ProductTables, log |-> s.log, views |-> s.views, at |-> 0,
                  err |-> s.err, after |-> s.db]
    /\ seen' = NoRead
    /\ UNCHANGED <<productVars, storeVars, req>>

ReceivePost(idManager, products) ==
    /\ flight = NoFlight
    /\ Len(products) <= Room
    /\ \E s \in {PostHandler(Session(ProductTables), idManager, products)} : Receive("post", s)

ReceiveUpdate(entity) ==
    /\ flight = NoFlight
    /\ \E s \in {UpdateHandler(Session(ProductTables), entity)} : Receive("update", s)

\* The next call of the request in progress is carried out.
Call ==
    /\ flight # NoFlight
    /\ flight.at < Len(flight.views)
    /\ product' = flight.views[flight.at + 1].product
    /\ productCategory' = flight.views[flight.at + 1].productCategory
    /\ productSize' = flight.views[flight.at + 1].productSize
    /\ flight' = [flight EXCEPT !.at = @ + 1]
    /\ seen' = NoRead
    /\ UNCHANGED <<storeVars, req>>

\* The request in progress returns or throws.
Return ==
    /\ flight # NoFlight
    /\ flight.at = Len(flight.views)
    /\ flight' = NoFlight
    /\ seen' = NoRead
    /\ UNCHANGED <<productVars, storeVars, req>>

\* A GET request of another client while the request is in progress.
ReadProduct(productId) ==
    /\ flight # NoFlight
    /\ seen' = [kind |-> "product", id |-> productId, result |-> ProductControllerGetById(ProductTables, productId)]
    /\ UNCHANGED <<productVars, storeVars, req, flight>>

ReadStore(storeId) ==
    /\ flight # NoFlight
    /\ seen' = [kind |-> "store", id |-> storeId, result |-> StoreControllerGetById(ProductTables, storeId)]
    /\ UNCHANGED <<productVars, storeVars, req, flight>>

\* ------------------------------------------------------------ specification
Init ==
    /\ product = <<>>
    /\ productCategory = <<>>
    /\ productSize = <<>>
    /\ store = <<[managerId |-> 1, name |-> "a", status |-> 1]>>
    /\ storeColor = <<[storeId |-> 1, type |-> "PRIMARY", hue |-> 12, sat |-> 12, light |-> 12],
                      [storeId |-> 1, type |-> "SECONDARY", hue |-> 240, sat |-> 240, light |-> 240]>>
    /\ req = NoRequest
    /\ flight = NoFlight
    /\ seen = NoRead

NextProduct ==
    \/ \E idManager \in Managers, n \in 1..Room : \E products \in [1..n -> NewProducts] : Post(idManager, products)
    \/ \E entity \in Puts : Update(entity)
    \/ Respond

SpecProduct == Init /\ [][NextProduct]_vars

NextStore ==
    \/ Idle /\ \E payload \in NewStores, failAt \in 0..MaxWrites : CreateStore(payload, failAt)
    \/ Idle /\ \E idManager \in Managers, payload \in StorePuts, failAt \in 0..MaxWrites : StoreUpdate(idManager, payload, failAt)
    \/ Respond

SpecStore == Init /\ [][NextStore]_vars

\* The life of product and store rows: every write request, product and
\* store requests together, on a small choice of payloads.
LifeProducts == [brand : {"Nike"}, categories : {<<>>, <<"Shoes">>}, sizes : {<<"M">>}]
LifeEntities == [id : 1..MaxProducts, brand : {"Puma"}, categories : {<<"Sale">>, <<"NoCategory">>},
                 sizes : {<<"M">>}, storeId : {1}]
LifeStores == [name : {"b"}, managerId : {2}, hasColors : {FALSE}, colors : {<<>>}]
LifeStorePuts == [id : {1}, name : {"b"}, hasColors : {TRUE},
                  colors : {[slot \in {"primary"} |-> [hue |-> 30, sat |-> 50, light |-> 40]]}]

NextLifecycle ==
    \/ \E idManager \in Managers, n \in 1..Room : \E products \in [1..n -> LifeProducts] : Post(idManager, products)
    \/ Idle /\ \E entity \in LifeEntities : Update(entity)
    \/ Idle /\ \E p \in Deletes : Delete(p)
    \/ Idle /\ \E payload \in LifeStores, failAt \in 0..MaxWrites : CreateStore(payload, failAt)
    \/ Idle /\ \E idManager \in Managers, payload \in LifeStorePuts, failAt \in 0..MaxWrites : StoreUpdate(idManager, payload, failAt)
    \/ Idle /\ \E payload \in Disables, failAt \in 0..1 : DisableStore(payload, failAt)
    \/ Respond

SpecLifecycle == Init /\ [][NextLifecycle]_vars

\* Product requests whose desired lists repeat a name.
DupProducts == [brand : {"Nike"}, categories : SeqsUpTo({"Shoes", "Sale"}, MaxLen), sizes : SeqsUpTo({"M"}, MaxDup)]
DupEntities == [id : 1..MaxProducts, brand : {"Nike"}, categories : SeqsUpTo({"Shoes", "Sale"}, MaxLen),
                sizes : SeqsUpTo({"M"}, MaxDup), storeId : {1}]

NextDuplicates ==
    \/ \E n \in 1..Room : \E products \in [1..n -> DupProducts] : Post(1, products)
    \/ Idle /\ \E entity \in DupEntities : Update(entity)
    \/ Respond

SpecDuplicates == Init /\ [][NextDuplicates]_vars

\* A product request carried out call by call, and the reads in between.
FlightProducts == [brand : {"Nike"}, categories : {<<"Shoes">>, <<"Shoes", "NoCategory">>}, sizes : {<<"M">>, <<"NoSize">>}]
FlightEntities == [id : 1..MaxProducts, brand : {"Puma"}, categories : {<<"Shoes">>, <<"Sale">>, <<"Sale", "NoCategory">>},
                   sizes : {<<"M">>, <<"NoSize">>}, storeId : {1}]

NextInterleave ==
    \/ \E idManager \in Managers, n \in 1..Room : \E products \in [1..n -> FlightProducts] : ReceivePost(idManager, products)
    \/ flight = NoFlight /\ \E entity \in FlightEntities : ReceiveUpdate(entity)
    \/ Call
    \/ Return
    \/ \E productId \in 1..MaxProducts : ReadProduct(productId)
    \/ \E storeId \in 1..MaxStores : ReadStore(storeId)

SpecInterleave == Init /\ [][NextInterleave]_vars

Next == NextProduct \/ NextStore \/ NextLifecycle \/ NextDuplicates \/ NextInterleave

Spec == Init /\ [][Next]_vars

\* ------------------------------------------------------------------ claims
Count(log, event) == Len(SelectSeq(log, LAMBDA e : e = event))

\* The join rows of one product, in table order.
RowsOf(rows, id) == SelectSeq(rows, LAMBDA r : r.productId = id)

CategoryWrites(log) == Count(log, "delete:productCategory") + Count(log, "insertOne:productCategory")
SizeWrites(log) == Count(log, "delete:productSize") + Count(log, "insertOne:productSize")

ProductRequest == req.op \in {"post", "update"}

\* C1: on the error path of ProductController.post and update (an exception
\* between beginTransaction and the normal commit), exactly one terminal call
\* closes the scope: rollbackTransaction once, and no commitTransaction.
C1_OneTerminalCallOnError ==
    (ProductRequest /\ req.err # "none" /\ Count(req.log, "begin") = 1)
        => (Count(req.log, "rollback") = 1 /\ Count(req.log, "commit") = 0)

\* C2: when a category or size name of a POSTed product matches no row, no
\* row written by the request is left: the product table and both join tables
\* are what they were before the request.
C2_CreateIsAtomic ==
    (req.op = "post" /\ req.err \in {"Invalid category", "Invalid size"})
        => (product = req.before.product /\ productCategory = req.before.productCategory
            /\ productSize = req.before.productSize)

\* A POST that had inserted a product row and a category row before a later
\* name failed to resolve.
C2_Witness ==
    /\ req.op = "post" /\ req.err \in {"Invalid category", "Invalid size"}
    /\ Count(req.log, "insertOne:product") >= 1
    /\ Count(req.log, "insertOne:productCategory") >= 1
    /\ Count(req.log, "rollback") = 1

\* C3: in updateProduct, per association kind: when the desired names equal
\* the persisted names position by position, no delete and no insert is issued
\* against that kind's join table.
C3_UnchangedKindNotWritten ==
    req.op = "update" =>
        LET persisted == ProductGetById(req.before, req.payload.id)
        IN  /\ req.payload.categories = persisted.categories => CategoryWrites(req.log) = 0
            /\ req.payload.sizes = persisted.sizes => SizeWrites(req.log) = 0

\* An update that kept two categories and rewrote the sizes.
C3_Witness ==
    /\ req.op = "update" /\ req.err = "none"
    /\ Len(req.payload.categories) = 2
    /\ req.payload.categories = ProductGetById(req.before, req.payload.id).categories
    /\ CategoryWrites(req.log) = 0
    /\ SizeWrites(req.log) > 0

\* The join rows a list of names asks for, for one product.
Wanted(names, table, id, field) == [i \in 1..Len(names) |-> (field :> (CHOOSE k \in 1..Len(table) : table[k] = names[i])) @@ [productId |-> id]]

\* C4: after a successful updateProduct whose desired list of a kind differs
\* from the persisted one, the product's old join rows of that kind were
\* deleted and its join rows are exactly one row per desired name, each with
\* the id of the reference row of that name (none for an empty list); the
\* names read back are the names written.
C4_RewrittenKindMatchesDesired ==
    (req.op = "update" /\ req.err = "none") =>
        LET id == req.payload.id
            persisted == ProductGetById(req.before, id)
            now == ProductGetById(ProductTables, id)
        IN  /\ req.payload.categories # persisted.categories =>
                  /\ Count(req.log, "delete:productCategory") = 1
                  /\ RowsOf(productCategory, id) = Wanted(req.payload.categories, Category, id, "categoryId")
            /\ req.payload.sizes # persisted.sizes =>
                  /\ Count(req.log, "delete:productSize") = 1
                  /\ RowsOf(productSize, id) = Wanted(req.payload.sizes, Size, id, "sizeId")
            /\ now.categories = req.payload.categories
            /\ now.sizes = req.payload.sizes

\* A successful update that shrank two categories to one, and one that
\* emptied the list.
C4_Witness ==
    /\ req.op = "update" /\ req.err = "none"
    /\ Len(RowsOf(req.before.productCategory, req.payload.id)) = 2
    /\ Len(req.payload.categories) = 1
    /\ Len(RowsOf(productCategory, req.payload.id)) = 1

\* C5: updateProduct run twice in a row with the same desired lists: the
\* second run leaves the join rows as the first left them and issues no
\* join-table write.
C5_SecondRunWritesNothing ==
    (req.op = "update" /\ req.again) =>
        /\ req.err = "none"
        /\ productCategory = req.before.productCategory
        /\ productSize = req.before.productSize
        /\ CategoryWrites(req.log) = 0 /\ SizeWrites(req.log) = 0

\* The second of two identical updates, with two different categories and a
\* size.
C5_Witness ==
    /\ req.op = "update" /\ req.again
    /\ Len(req.payload.categories) = 2 /\ req.payload.categories[1] # req.payload.categories[2]
    /\ Len(req.payload.sizes) = 1

\* The color rows of one store, in table order.
ColorsOf(rows, id) == SelectSeq(rows, LAMBDA r : r.storeId = id)

\* C6: in every state reachable by createStore and store update requests,
\* requests in which a repository call fails part-way included, every store
\* has no or exactly two StoreColor rows, and at most one row per type.
C6_ColorInvariant ==
    \A id \in 1..Len(store) :
        LET rows == ColorsOf(storeColor, id)
        IN  /\ Len(rows) \in {0, 2}
            /\ \A type \in {"PRIMARY", "SECONDARY"} : Len(SelectSeq(rows, LAMBDA r : r.type = type)) <= 1

\* Why updateProduct fails on a payload, store id aside: the brand, a
\* category or a size name matches no row, or no product has the id.
Known(names, table) == \A i \in 1..Len(names) : \E k \in 1..Len(table) : table[k] = names[i]

Resolvable(entity, db) ==
    /\ Known(<<entity.brand>>, Brand)
    /\ Known(entity.categories, Category)
    /\ Known(entity.sizes, Size)
    /\ entity.id \in 1..Len(db.product)

\* C7: whatever the payload of updateProduct carries as storeId, every
\* product's storeId is what it was before the call, and a storeId other than
\* the product's own does not make the update fail: it fails only for a
\* payload that would fail with the product's own storeId too.
C7_StoreIdNeverChanges ==
    req.op = "update" =>
        /\ Len(product) = Len(req.before.product)
        /\ \A i \in 1..Len(product) : product[i].storeId = req.before.product[i].storeId
        /\ Resolvable(req.payload, req.before) => req.err = "none"

\* A successful update whose payload names another store than the product's.
C7_Witness ==
    /\ req.op = "update" /\ req.err = "none"
    /\ req.payload.storeId # req.before.product[req.payload.id].storeId
    /\ Count(req.log, "update:product") = 1

\* C8: a successful createStore adds exactly two StoreColor rows, both of the
\* new store id: a PRIMARY and a SECONDARY row, with (12, 12, 12) and
\* (240, 240, 240) when the payload has no colors and with the payload's
\* primary and secondary values when it has.
C8_CreateStoreInsertsTwoColors ==
    (req.op = "createStore" /\ req.err = "none") =>
        LET id == Len(req.before.store) + 1
            rows == ColorsOf(storeColor, id)
            primary == IF req.payload.hasColors THEN req.payload.colors.primary ELSE [hue |-> 12, sat |-> 12, light |-> 12]
            secondary == IF req.payload.hasColors THEN req.payload.colors.secondary ELSE [hue |-> 240, sat |-> 240, light |-> 240]
        IN  /\ Len(store) = id
            /\ Len(storeColor) = Len(req.before.storeColor) + 2
            /\ SubSeq(storeColor, 1, Len(req.before.storeColor)) = req.before.storeColor
            /\ {rows[i] : i \in 1..Len(rows)} =
                   {[storeId |-> id, type |-> "PRIMARY", hue |-> primary.hue, sat |-> primary.sat, light |-> primary.light],
                    [storeId |-> id, type |-> "SECONDARY", hue |-> secondary.hue, sat |-> secondary.sat, light |-> secondary.light]}
            /\ Len(rows) = 2

\* A createStore without colors that succeeded.
C8_Witness ==
    /\ req.op = "createStore" /\ req.err = "none" /\ ~req.payload.hasColors
    /\ Len(ColorsOf(storeColor, Len(store))) = 2

\* C9: a successful POST inserts, for each product of the array, one product
\* row with the brand's id and the caller's store id, one ProductCategory row
\* per declared category and one ProductSize row per declared size, all with
\* the new product's id; no other join row is added or changed.
C9_CreateWritesTheAggregate ==
    (req.op = "post" /\ req.err = "none") =>
        LET n == Len(req.payload)
            base == Len(req.before.product)
            NewRows(rows, old) == SubSeq(rows, Len(old) + 1, Len(rows))
        IN  /\ Len(product) = base + n
            /\ SubSeq(product, 1, base) = req.before.product
            /\ SubSeq(productCategory, 1, Len(req.before.productCategory)) = req.before.productCategory
            /\ SubSeq(productSize, 1, Len(req.before.productSize)) = req.before.productSize
            /\ \A r \in 1..Len(NewRows(productCategory, req.before.productCategory)) :
                   NewRows(productCategory, req.before.productCategory)[r].productId \in (base + 1)..(base + n)
            /\ \A r \in 1..Len(NewRows(productSize, req.before.productSize)) :
                   NewRows(productSize, req.before.productSize)[r].productId \in (base + 1)..(base + n)
            /\ \A k \in 1..n :
                   /\ Brand[product[base + k].brandId] = req.payload[k].brand
                   /\ store[product[base + k].storeId].managerId = req.caller
                   /\ RowsOf(productCategory, base + k) = Wanted(req.payload[k].categories, Category, base + k, "categoryId")
                   /\ RowsOf(productSize, base + k) = Wanted(req.payload[k].sizes, Size, base + k, "sizeId")

\* A POST of one product of brand Puma with categories Shoes, Sale and size
\* M, after another product was created.
C9_Witness ==
    /\ req.op = "post" /\ req.err = "none"
    /\ Len(req.before.product) = 1
    /\ Len(req.payload) = 1
    /\ req.payload[1].brand = "Puma"
    /\ req.payload[1].categories = <<"Shoes", "Sale">>
    /\ req.payload[1].sizes = <<"M">>
    /\ Len(RowsOf(productCategory, 2)) = 2 /\ Len(RowsOf(productSize, 2)) = 1

\* C10: when updateProduct fails after it has written, then after the
\* request the product rows and both join tables are what they were before it.
C10_UpdateIsAtomic ==
    (req.op = "update" /\ req.err # "none")
        => (product = req.before.product /\ productCategory = req.before.productCategory
            /\ productSize = req.before.productSize)

\* An update that changed the brand, deleted and re-inserted the categories
\* and then met an unknown size.
C10_Witness ==
    /\ req.op = "update" /\ req.err = "Invalid size"
    /\ req.payload.id \in 1..Len(req.before.product)
    /\ Brand[req.before.product[req.payload.id].brandId] # req.payload.brand
    /\ Count(req.log, "update:product") = 1
    /\ Count(req.log, "delete:productCategory") = 1
    /\ Count(req.log, "insertOne:productCategory") >= 1
    /\ Len(RowsOf(req.before.productCategory, req.payload.id)) >= 1

\* The repository writes of a product request.
Writes == {"insertOne:product", "update:product", "insertOne:productCategory", "delete:productCategory",
           "insertOne:productSize", "delete:productSize"}

\* C11: a post or update that succeeds calls beginTransaction first and
\* commitTransaction last, each once, and never rollbackTransaction; every
\* call between the two is a write of the request, and there is at least one.
C11_WritesInsideTheScope ==
    (ProductRequest /\ req.err = "none") =>
        LET n == Len(req.log)
        IN  /\ n >= 3
            /\ req.log[1] = "begin"
            /\ req.log[n] = "commit"
            /\ \A i \in 2..(n - 1) : req.log[i] \in Writes
            /\ Count(req.log, "begin") = 1 /\ Count(req.log, "commit") = 1 /\ Count(req.log, "rollback") = 0

\* A successful update that wrote the product row, deleted the categories
\* and inserted two.
C11_Witness ==
    /\ req.op = "update" /\ req.err = "none"
    /\ req.log = <<"begin", "update:product", "delete:productCategory", "insertOne:productCategory",
                   "insertOne:productCategory", "commit">>

\* A product request in which a step failed inside the open scope.
FailedInScope == ProductRequest /\ req.err # "none" /\ Count(req.log, "begin") = 1

\* The error object of the failed step itself.
Original(e) == [name |-> ErrorName(e), message |-> ErrorMessage(e)]

\* C12: when a step of post or update fails inside the open scope,
\* rollbackTransaction is called, no write follows it, and the handler throws
\* to its caller the error of the failed step itself.
C12_RollbackThenOriginalError ==
    FailedInScope =>
        /\ Count(req.log, "rollback") = 1
        /\ \A i \in 1..Len(req.log) : \A j \in 1..Len(req.log) :
               (req.log[i] = "rollback" /\ req.log[j] \in Writes) => j < i
        /\ req.raised = Original(req.err)

\* The error kinds of the core, as the errors the repository throws:
\* a name lookup that matched no row (part_000 761, 770, 778), and a product
\* not found on read-back (part_000 794).
ReferenceNotFound == {"No brand with that name", "Invalid category", "Invalid size"}
AggregateNotFound == {"Product not found"}

NoWrite(log) == \A i \in 1..Len(log) : log[i] \notin Writes

\* C13: an update whose brand name matches no Brand row, and a post whose
\* first product's brand name matches none, fails with a reference-not-found
\* error before any write is issued, and the three tables stay as they were.
C13_UnknownBrandFailsBeforeWriting ==
    LET unknownBrand == \/ req.op = "update" /\ ~Known(<<req.payload.brand>>, Brand)
                        \/ /\ req.op = "post" /\ Count(req.log, "begin") = 1
                           /\ ~Known(<<req.payload[1].brand>>, Brand)
    IN  unknownBrand =>
            /\ req.err \in ReferenceNotFound
            /\ NoWrite(req.log)
            /\ ProductTables = req.before

\* The condition a failed product request met first, in the order the
\* repository checks them: a post fails on a name only; an update on its
\* brand name, then on the read-back of the product, then on a category or
\* size name.
Condition ==
    IF req.op = "update" /\ Known(<<req.payload.brand>>, Brand) /\ req.payload.id \notin 1..Len(req.before.product)
    THEN "aggregate" ELSE "reference"

\* The kind of an error thrown by the repository, and the kind its caller
\* reads off the error the handler throws.
Kind(e) == IF e \in ReferenceNotFound THEN "reference" ELSE IF e \in AggregateNotFound THEN "aggregate" ELSE "other"

KindRaised(raised) ==
    IF \E e \in ReferenceNotFound : raised.message \in {e, "Error: " \o e} THEN "reference"
    ELSE IF \E e \in AggregateNotFound : raised.message \in {e, "Error: " \o e} THEN "aggregate"
    ELSE "other"

\* C14: a product request that fails inside its scope fails with the error
\* kind of the condition it met: reference-not-found for a brand, category or
\* size name that matches no row, aggregate-not-found for a product id not
\* found on read-back; and the error thrown to the caller of post or update
\* still tells which.
C14_ErrorKindPerCondition ==
    FailedInScope => (Kind(req.err) = Condition /\ KindRaised(req.raised) = Condition)

\* The store a store update writes, and whether the payload carries a color
\* for a slot that store has no row of.
ManagedStore == FindStoreByManager(req.before.store, req.caller)

MissingSlot(slot, type) ==
    /\ req.payload.hasColors /\ slot \in DOMAIN req.payload.colors
    /\ FindColor(req.before.storeColor, ManagedStore[1], type) = <<>>

\* C15: a store update leaves the number of StoreColor rows of every store
\* as it was, and when its payload carries a color for a slot the caller's
\* store has no row of, it fails with a reference-not-found error (unless the
\* database refused a write before).
C15_ColorsAreUpdateOnly ==
    req.op = "storeUpdate" =>
        /\ Len(store) = Len(req.before.store)
        /\ \A id \in 1..Len(store) : Len(ColorsOf(storeColor, id)) = Len(ColorsOf(req.before.storeColor, id))
        /\ (/\ ManagedStore # <<>> /\ req.err # "DbError"
            /\ (MissingSlot("primary", "PRIMARY") \/ MissingSlot("secondary", "SECONDARY")))
               => req.err \in ReferenceNotFound

\* C16: a store update writes no store row but the first one whose managerId
\* is the caller's id, and no color row but the rows of that store, whatever
\* id its payload carries; when the caller manages no store it fails and
\* writes nothing.
C16_OnlyTheCallersStore ==
    req.op = "storeUpdate" =>
        /\ Len(store) = Len(req.before.store) /\ Len(storeColor) = Len(req.before.storeColor)
        /\ ManagedStore # <<>> =>
               /\ req.before.store[ManagedStore[1]].managerId = req.caller
               /\ \A i \in 1..Len(store) : i # ManagedStore[1] => store[i] = req.before.store[i]
               /\ \A i \in 1..Len(storeColor) :
                      req.before.storeColor[i].storeId # ManagedStore[1] => storeColor[i] = req.before.storeColor[i]
        /\ ManagedStore = <<>> =>
               /\ req.err # "none" /\ req.log = <<>>
               /\ store = req.before.store /\ storeColor = req.before.storeColor

\* Manager 2 renamed store 2 and changed its PRIMARY color with a payload
\* that carries the id of store 1.
C16_Witness ==
    /\ req.op = "storeUpdate" /\ req.err = "none" /\ req.caller = 2
    /\ ManagedStore = <<2>> /\ req.payload.id = 1
    /\ store[2].name # req.before.store[2].name
    /\ storeColor # req.before.storeColor

\* A table after its row id has been disabled: status 0 on that row, every
\* other column and row as it was.
Disabled(rows, id) == [i \in 1..Len(rows) |-> IF i = id THEN [rows[i] EXCEPT !.status = 0] ELSE rows[i]]

\* C17: no request removes a Product or Store row; ProductController.delete
\* sets status to 0 on the product it addresses and changes nothing else in
\* any table, and disableStore does the same on the store it addresses (or
\* changes nothing at all when the database refuses its write).
C17_SoftDelete ==
    [][/\ Len(product') >= Len(product) /\ Len(store') >= Len(store)
       /\ req'.op = "delete" =>
              /\ product' = Disabled(product, req'.payload.id)
              /\ UNCHANGED <<productCategory, productSize, store, storeColor>>
       /\ req'.op = "disableStore" =>
              /\ store' = IF req'.err = "none" THEN Disabled(store, req'.payload.id) ELSE store
              /\ UNCHANGED <<storeColor, product, productCategory, productSize>>]_vars

\* Store 2, which has color rows, has just been disabled, after a product
\* with join rows was.
C17_Witness ==
    /\ req.op = "disableStore" /\ req.err = "none" /\ req.payload.id = 2
    /\ Len(req.before.store) = 2
    /\ req.before.store[2].status = 1 /\ store[2].status = 0
    /\ Len(ColorsOf(storeColor, 2)) = 2
    /\ \E i \in 1..Len(product) : product[i].status = 0 /\ RowsOf(productCategory, i) # <<>> /\ RowsOf(productSize, i) # <<>>

\* One join row of the product per occurrence of each name in the list.
RowPerOccurrence(rows, field, table, id, names) ==
    \A k \in 1..Len(table) :
        Len(SelectSeq(rows, LAMBDA r : r.productId = id /\ r[field] = k)) = Count(names, table[k])

\* C18: after a successful post, every new product has one ProductCategory
\* row per occurrence of each name in its category list and one ProductSize
\* row per occurrence of each name in its size list; after a successful
\* update, the same holds of each kind the update rewrote. A name listed k
\* times has k join rows.
C18_DuplicatesAreInserted ==
    /\ (req.op = "post" /\ req.err = "none") =>
           \A k \in 1..Len(req.payload) :
               LET id == Len(req.before.product) + k
               IN  /\ RowPerOccurrence(productCategory, "categoryId", Category, id, req.payload[k].categories)
                   /\ RowPerOccurrence(productSize, "sizeId", Size, id, req.payload[k].sizes)
    /\ (req.op = "update" /\ req.err = "none") =>
           /\ Count(req.log, "delete:productCategory") = 1 =>
                  RowPerOccurrence(productCategory, "categoryId", Category, req.payload.id, req.payload.categories)
           /\ Count(req.log, "delete:productSize") = 1 =>
                  RowPerOccurrence(productSize, "sizeId", Size, req.payload.id, req.payload.sizes)

\* An update rewrote both kinds of a product created with Shoes twice, to
\* Sale twice and M twice: two equal rows of each kind.
C18_Witness ==
    /\ req.op = "update" /\ req.err = "none"
    /\ ProductGetById(req.before, req.payload.id).categories = <<"Shoes", "Shoes">>
    /\ req.payload.categories = <<"Sale", "Sale">> /\ req.payload.sizes = <<"M", "M">>
    /\ Count(req.log, "delete:productCategory") = 1 /\ Count(req.log, "delete:productSize") = 1
    /\ RowsOf(productCategory, req.payload.id) = <<[productId |-> req.payload.id, categoryId |-> 2],
                                                    [productId |-> req.payload.id, categoryId |-> 2]>>
    /\ Len(RowsOf(productSize, req.payload.id)) = 2

\* The payload of the store update carries a color for the slot.
Present(slot) == req.payload.hasColors /\ slot \in DOMAIN req.payload.colors

\* C19: a store update, whether it succeeds or fails, changes no color row
\* of a slot its payload does not carry: without colors.primary every PRIMARY
\* row is as before, without colors.secondary every SECONDARY row is as
\* before; and no color row changes its type or its storeId.
C19_OnlyThePresentSlots ==
    req.op = "storeUpdate" =>
        /\ Len(storeColor) = Len(req.before.storeColor)
        /\ \A i \in 1..Len(storeColor) :
               /\ storeColor[i].type = req.before.storeColor[i].type
               /\ storeColor[i].storeId = req.before.storeColor[i].storeId
               /\ (storeColor[i].type = "PRIMARY" /\ ~Present("primary")) => storeColor[i] = req.before.storeColor[i]
               /\ (storeColor[i].type = "SECONDARY" /\ ~Present("secondary")) => storeColor[i] = req.before.storeColor[i]

\* A successful update with colors.secondary only, which changed the
\* SECONDARY row of the caller's store.
C19_Witness ==
    /\ req.op = "storeUpdate" /\ req.err = "none"
    /\ Present("secondary") /\ ~Present("primary")
    /\ \E i \in 1..Len(storeColor) :
           /\ storeColor[i].type = "SECONDARY" /\ storeColor[i].storeId = ManagedStore[1]
           /\ storeColor[i].hue = req.payload.colors.secondary.hue
           /\ storeColor[i] # req.before.storeColor[i]

\* What a read request gets on the tables db.
Observe(kind, id, db) == IF kind = "product" THEN ProductControllerGetById(db, id) ELSE StoreControllerGetById(db, id)

\* C20: whatever a getById of a product or of a store returns while a post
\* or an update is in progress, between any two of its calls, is what it
\* returns on the tables before the request or on the tables the request
\* leaves when it has succeeded; while a request that fails is in progress
\* it is what it returns on the tables before the request.
C20_ReadersSeeNoPartialWrite ==
    seen # NoRead =>
        LET was == Observe(seen.kind, seen.id, flight.before)
            now == Observe(seen.kind, seen.id, flight.after)
        IN  /\ flight # NoFlight
            /\ seen.result \in {was, now}
            /\ flight.err # "none" => seen.result = was

\* A product read right after an update deleted its category rows, before
\* it inserted the new one: the reader got the old category.
C20_Witness ==
    /\ flight # NoFlight /\ flight.op = "update" /\ flight.at >= 1
    /\ flight.log[flight.at] = "delete:productCategory"
    /\ seen # NoRead /\ seen.kind = "product" /\ seen.result.found
    /\ seen.result.categories = <<"Shoes">>
    /\ Observe("product", seen.id, flight.after).categories = <<"Sale">>

\* A product insertProduct fails on: its brand, a category or a size name
\* matches no row.
Bad(p) == ~(Known(<<p.brand>>, Brand) /\ Known(p.categories, Category) /\ Known(p.sizes, Size))

\* C21: when insertProduct fails for the k-th product of a post, the
\* product table and both join tables are what they were before the request,
\* so no row of products 1..k-1 is left; and the products after the k-th are
\* not attempted: insertOne was called for k product rows at most (k - 1
\* when the k-th fails on its brand), and the calls of the request are the
\* calls of the same request without the products after the k-th.
C21_PostIsAllOrNothing ==
    (req.op = "post" /\ FailedInScope) =>
        LET k == CHOOSE i \in 1..Len(req.payload) : Bad(req.payload[i]) /\ \A j \in 1..(i - 1) : ~Bad(req.payload[j])
            upToK == PostHandler(Session(req.before), req.caller, SubSeq(req.payload, 1, k))
        IN  /\ \E i \in 1..Len(req.payload) : Bad(req.payload[i])
            /\ ProductTables = req.before
            /\ Count(req.log, "insertOne:product") = IF Known(<<req.payload[k].brand>>, Brand) THEN k ELSE k - 1
            /\ req.log = upToK.log
            /\ req.err = upToK.err

\* A post of two products whose first was inserted with two categories and
\* a size and whose second failed on a size after its category was inserted.
C21_Witness ==
    /\ req.op = "post" /\ FailedInScope /\ Len(req.payload) = 2
    /\ ~Bad(req.payload[1]) /\ Len(req.payload[1].categories) = 2 /\ Len(req.payload[1].sizes) = 1
    /\ req.err = "Invalid size" /\ Len(req.payload[2].categories) = 1
    /\ Count(req.log, "insertOne:product") = 2
    /\ Count(req.log, "insertOne:productCategory") = 3
    /\ product = req.before.product

\* An update of a product id no product row has.
MissingProduct == req.op = "update" /\ req.payload.id \notin 1..Len(req.before.product)

\* C22 as stated: an update of a product id that does not exist fails with
\* an aggregate-not-found error and leaves every table unchanged.
C22_MissingProductAsStated ==
    MissingProduct => (req.err \in AggregateNotFound /\ ProductTables = req.before)

\* C22: an update of a product id that does not exist fails and leaves the
\* product table and both join tables unchanged, without a write on a join
\* table; when its brand name matches a Brand row, it fails with the
\* aggregate-not-found error of the read-back, and otherwise on the brand,
\* which is resolved before the read-back.
C22_MissingProductIsNotFound ==
    MissingProduct =>
        /\ req.err # "none"
        /\ ProductTables = req.before
        /\ CategoryWrites(req.log) = 0 /\ SizeWrites(req.log) = 0
        /\ Known(<<req.payload.brand>>, Brand) =>
               /\ req.err \in AggregateNotFound
               /\ KindRaised(req.raised) = "aggregate"
        /\ ~Known(<<req.payload.brand>>, Brand) => req.err \notin AggregateNotFound

\* An update of product 2 when only product 1 exists, with its join rows:
\* the row update matched nothing and the read-back found no product.
C22_Witness ==
    /\ MissingProduct /\ req.payload.id = 2 /\ Len(req.before.product) = 1
    /\ req.before.productCategory # <<>> /\ req.before.productSize # <<>>
    /\ req.payload.categories # <<>> /\ req.payload.sizes # <<>>
    /\ req.err = "Product not found"
    /\ req.log = <<"begin", "update:product", "rollback", "commit">>

\* C23: a store update that fails leaves the store rows and the color rows
\* as they were before the request, whichever step it failed at.
C23_StoreUpdateIsAtomic ==
    (req.op = "storeUpdate" /\ req.err # "none") =>
        (store = req.before.store /\ storeColor = req.before.storeColor)

\* C24: a store update whose payload has no colors object, sent by a caller
\* who manages a store, sets the columns of the payload on that store's row,
\* changes no StoreColor row and raises no error (unless the database
\* refuses the write of the store row).
C24_UpdateWithoutColors ==
    (req.op = "storeUpdate" /\ ~req.payload.hasColors /\ ManagedStore # <<>> /\ req.err # "DbError") =>
        /\ req.err = "none"
        /\ storeColor = req.before.storeColor
        /\ store = SetRow(req.before.store, StoreFields(req.payload, ManagedStore[1]))

====
